---- MODULE Spec2Model ----
(***************************************************************************)
(* Recurrence date calculator of the task scheduler (src/main.go,          *)
(* NextDate).  Strings are sequences of one-character strings, instants    *)
(* are integer ticks since 0001-01-01 00:00 UTC, and a time.Time value is  *)
(* the instant it denotes (every time.Time NextDate builds is in UTC).     *)
(***************************************************************************)
EXTENDS Integers, Sequences, FiniteSets, TLC

VARIABLES now, date, repeat, pc, parsedDate, nextDate, days,
          result, err, iter, advanced, snapped,
          zone, clock, tasks, nextId, calls, password, last

\* The locals of the NextDate invocation that is followed step by step.
ndvars == <<now, date, repeat, pc, parsedDate, nextDate, days,
            result, err, iter, advanced, snapped>>

\* The server around it: the zone of time.Local, the wall clock, the
\* scheduler table and its AUTOINCREMENT counter, concurrent NextDate
\* invocations, TODO_PASSWORD and the last answered request.
srvvars == <<zone, clock, tasks, nextId, calls, password, last>>

vars == <<now, date, repeat, pc, parsedDate, nextDate, days,
          result, err, iter, advanced, snapped,
          zone, clock, tasks, nextId, calls, password, last>>

(***************************************************************************)
(* Bounds of the model.                                                    *)
(***************************************************************************)
TicksPerDay == 2
FirstYear == 2023
AnchorYearSpan == 1
RefYearSpan == 4
MaxIter == 5
MaxTasks == 2
MaxClock == 1
MaxAheadDays == 1

(***************************************************************************)
(* Characters and strings.                                                 *)
(***************************************************************************)
DigitChars == <<"0", "1", "2", "3", "4", "5", "6", "7", "8", "9">>

IsDigit(c) == \E i \in 1..10 : DigitChars[i] = c

DigitVal(c) == (CHOOSE i \in 1..10 : DigitChars[i] = c) - 1

DigitChar(v) == DigitChars[v + 1]

IsSpace(c) == c \in {" ", "\t"}

HasPrefix(s, prefix) ==
    /\ Len(s) >= Len(prefix)
    /\ SubSeq(s, 1, Len(prefix)) = prefix

TrimPrefix(s, prefix) ==
    IF HasPrefix(s, prefix) THEN SubSeq(s, Len(prefix) + 1, Len(s)) ELSE s

RECURSIVE TrimLeft(_)
TrimLeft(s) ==
    IF s # <<>> /\ IsSpace(Head(s)) THEN TrimLeft(Tail(s)) ELSE s

RECURSIVE TrimRight(_)
TrimRight(s) ==
    IF s # <<>> /\ IsSpace(s[Len(s)])
    THEN TrimRight(SubSeq(s, 1, Len(s) - 1))
    ELSE s

TrimSpace(s) == TrimRight(TrimLeft(s))

RECURSIVE DigitsValue(_)
DigitsValue(s) ==
    IF s = <<>> THEN 0
    ELSE 10 * DigitsValue(SubSeq(s, 1, Len(s) - 1)) + DigitVal(s[Len(s)])

AllDigits(s) == \A i \in 1..Len(s) : IsDigit(s[i])

\* strconv.Atoi: an optional sign followed by at least one decimal digit.
AtoiBody(s) ==
    IF s # <<>> /\ Head(s) \in {"+", "-"} THEN Tail(s) ELSE s

AtoiOK(s) == AtoiBody(s) # <<>> /\ AllDigits(AtoiBody(s))

Atoi(s) ==
    IF s # <<>> /\ Head(s) = "-"
    THEN 0 - DigitsValue(AtoiBody(s))
    ELSE DigitsValue(AtoiBody(s))

(***************************************************************************)
(* The proleptic Gregorian calendar of package time.                       *)
(***************************************************************************)
isLeapYear(year) == (year % 4 = 0 /\ year % 100 # 0) \/ (year % 400 = 0)

DaysIn(month, year) ==
    IF month = 2 THEN (IF isLeapYear(year) THEN 29 ELSE 28)
    ELSE IF month \in {4, 6, 9, 11} THEN 30 ELSE 31

DaysBeforeYear(year) ==
    365 * (year - 1) + ((year - 1) \div 4) - ((year - 1) \div 100)
        + ((year - 1) \div 400)

RECURSIVE DaysBeforeMonth(_, _)
DaysBeforeMonth(month, year) ==
    IF month = 1 THEN 0
    ELSE DaysBeforeMonth(month - 1, year) + DaysIn(month - 1, year)

\* time.Date(year, month, day, 0, 0, 0, 0, UTC): month and day may be out
\* of range and are normalised.
Date(year, month, day) ==
    LET y == year + ((month - 1) \div 12)
        m == ((month - 1) % 12) + 1
    IN  (DaysBeforeYear(y) + DaysBeforeMonth(m, y) + day - 1) * TicksPerDay

DayNumber(t) == t \div TicksPerDay

Year(t) ==
    LET d == DayNumber(t)
    IN  CHOOSE y \in ((d \div 366) + 1)..((d \div 365) + 1) :
            DaysBeforeYear(y) <= d /\ d < DaysBeforeYear(y + 1)

YearDay(t) == DayNumber(t) - DaysBeforeYear(Year(t))

Month(t) ==
    LET y == Year(t)
        yd == YearDay(t)
    IN  CHOOSE m \in 1..12 :
            /\ DaysBeforeMonth(m, y) <= yd
            /\ yd < DaysBeforeMonth(m, y) + DaysIn(m, y)

Day(t) == YearDay(t) - DaysBeforeMonth(Month(t), Year(t)) + 1

Clock(t) == t % TicksPerDay

\* t.AddDate(years, months, days): time.Date of the shifted fields, the
\* time of day kept.
AddDate(t, years, months, ds) ==
    Date(Year(t) + years, Month(t) + months, Day(t) + ds) + Clock(t)

After(t, u) == t > u

\* time.Parse(DateFormat, s): four year digits, two month digits, two day
\* digits, nothing else, and the day must exist in that month.
ParseOK(s) ==
    /\ Len(s) = 8
    /\ AllDigits(s)
    /\ LET y == DigitsValue(SubSeq(s, 1, 4))
           m == DigitsValue(SubSeq(s, 5, 6))
           d == DigitsValue(SubSeq(s, 7, 8))
       IN  /\ m >= 1 /\ m <= 12
           /\ d >= 1 /\ d <= DaysIn(m, y)

Parse(s) ==
    Date(DigitsValue(SubSeq(s, 1, 4)), DigitsValue(SubSeq(s, 5, 6)),
         DigitsValue(SubSeq(s, 7, 8)))

Pad2(v) == <<DigitChar((v \div 10) % 10), DigitChar(v % 10)>>

Pad4(v) == <<DigitChar((v \div 1000) % 10), DigitChar((v \div 100) % 10)>>
               \o Pad2(v)

\* t.Format(DateFormat)
Format(t) == Pad4(Year(t)) \o Pad2(Month(t)) \o Pad2(Day(t))

(***************************************************************************)
(* Inputs of NextDate.                                                     *)
(***************************************************************************)
DPrefix == <<"d", " ">>

AnchorYears == FirstYear..(FirstYear + AnchorYearSpan)

AnchorDoms == {1, 26, 28, 29, 30, 31}

\* Every "YYYYMMDD" text over the anchor years, the days that do not exist
\* (20230229, 20240431, ...) included.
WellFormedAnchors ==
    {Pad4(y) \o Pad2(m) \o Pad2(d) :
        y \in AnchorYears, m \in 1..12, d \in AnchorDoms}

MalformedAnchors ==
    { <<>>,
      <<"2", "0", "2", "4", "0", "1", "2">>,
      <<"2", "0", "2", "4", "0", "1", "2", "6", "1">>,
      <<"2", "0", "2", "4", "-", "1", "2", "6">>,
      <<"2", "0", "2", "4", "1", "3", "0", "1">>,
      <<"2", "0", "2", "4", "0", "1", "0", "0">> }

Anchors == WellFormedAnchors \cup MalformedAnchors

Rules ==
    { <<>>,
      <<"y">>,
      <<"y", " ">>,
      <<"d">>,
      <<"d", " ">>,
      <<"d", " ", "0">>,
      <<"d", " ", "1">>,
      <<"d", " ", "7">>,
      <<"d", " ", "3", "0">>,
      <<"d", " ", "4", "0", "0">>,
      <<"d", " ", "4", "0", "1">>,
      <<"d", " ", "4", "0", "5">>,
      <<"d", " ", "-", "1">>,
      <<"d", " ", "+", "7">>,
      <<"d", " ", " ", "7", " ">>,
      <<"d", " ", "x">>,
      <<"d", " ", "1", " ", "0">>,
      <<"m", " ", "1">>,
      <<"w", "e", "e", "k", "l", "y">> }

RefYears == FirstYear..(FirstYear + RefYearSpan)

RefMonthDays == {<<1, 26>>, <<1, 31>>, <<2, 29>>, <<12, 31>>}

\* Reference instants: a date (February 29 of a common year is March 1)
\* and a time of day.
Nows ==
    {Date(y, md[1], md[2]) + c :
        y \in RefYears, md \in RefMonthDays, c \in 0..(TicksPerDay - 1)}

(***************************************************************************)
(* NextDate, src/main.go 767-845.                                          *)
(***************************************************************************)
\* IsDailyRule testing the letter only.
IsDailyRuleLetterOnly(r) == HasPrefix(r, <<"d">>)

IsDailyRule(r) == HasPrefix(r, DPrefix)

IsAnnualRule(r) == r = <<"y">>

DaysStr(r) == TrimSpace(TrimPrefix(r, DPrefix))

\* IntervalBad without the upper bound.
IntervalBadNoCap(s) == ~AtoiOK(s) \/ Atoi(s) <= 0

IntervalBad(s) == ~AtoiOK(s) \/ Atoi(s) <= 0 \/ Atoi(s) > 400

\* NextDateError parsing the anchor before it tests the rule for emptiness.
NextDateErrorParseFirst(d, r) ==
    IF ~ParseOK(d) THEN "InvalidDate"
    ELSE IF r = <<>> THEN "EmptyRule"
    ELSE IF IsDailyRule(r)
         THEN (IF IntervalBad(DaysStr(r)) THEN "InvalidInterval" ELSE "")
    ELSE IF IsAnnualRule(r) THEN ""
    ELSE "UnsupportedRule"

\* NextDateError classifying the rule before it parses the anchor.
NextDateErrorClassifyFirst(d, r) ==
    IF r = <<>> THEN "EmptyRule"
    ELSE IF IsDailyRule(r) /\ IntervalBad(DaysStr(r)) THEN "InvalidInterval"
    ELSE IF ~IsDailyRule(r) /\ ~IsAnnualRule(r) THEN "UnsupportedRule"
    ELSE IF ~ParseOK(d) THEN "InvalidDate"
    ELSE ""

\* The error NextDate returns, "" when it returns none.
NextDateError(d, r) ==
    IF r = <<>> THEN "EmptyRule"
    ELSE IF ~ParseOK(d) THEN "InvalidDate"
    ELSE IF IsDailyRule(r)
         THEN (IF IntervalBad(DaysStr(r)) THEN "InvalidInterval" ELSE "")
    ELSE IF IsAnnualRule(r) THEN ""
    ELSE "UnsupportedRule"

\* LoopCond stopping as soon as the candidate reaches the reference.
LoopCondBefore(next, ref) == next < ref

LoopCond(next, ref) == ~After(next, ref)

\* DailyStep that leaves the date where it is.
DailyStepZero(t, n) == AddDate(t, 0, 0, 0)

DailyStep(t, n) == AddDate(t, 0, 0, n)

IsLeapDay(t) == Month(t) = 2 /\ Day(t) = 29

\* ClampTarget of the earlier revision: the last day of February.
ClampTargetFeb28(year) == Date(year, 2, 28)

ClampTarget(year) == Date(year, 3, 1)

\* LeapDayStep going to the next February 29.
LeapDayStepFourYears(t) == AddDate(t, 4, 0, 0)

LeapDayStep(t) ==
    LET a == AddDate(t, 1, 0, 0)
    IN  IF ~isLeapYear(Year(a)) THEN ClampTarget(Year(a)) ELSE a

\* AddYear as a fixed number of days.
AddYear365(t) == AddDate(t, 0, 0, 365)

AddYear(t) == AddDate(t, 1, 0, 0)

\* Snap taking the last day of the month after.
SnapNextMonth(t) == Date(Year(t), Month(t) + 2, 0)

Snap(t) == Date(Year(t), Month(t) + 1, 0)

SnapFirst(parsed, next) == Day(parsed) = 31

\* SnapLoop taking every day from the 30th on for a month end.
SnapLoopFrom30(parsed, next) == Day(next) >= 30

SnapLoop(parsed, next) == Day(next) = 31

Init ==
    /\ now \in Nows
    /\ date \in Anchors
    /\ repeat \in Rules
    /\ pc = "start"
    /\ parsedDate = 0
    /\ nextDate = 0
    /\ days = 0
    /\ result = <<>>
    /\ err = ""
    /\ iter = 0
    /\ advanced = 0
    /\ snapped = FALSE
    /\ zone = 0
    /\ clock = 0
    /\ tasks = <<>>
    /\ nextId = 1
    /\ calls = <<>>
    /\ password = <<>>
    /\ last = <<>>

\* Lines 768-784 and 840-842: an invalid call returns its error.
Reject ==
    /\ pc = "start"
    /\ NextDateError(date, repeat) # ""
    /\ err' = NextDateError(date, repeat)
    /\ result' = <<>>
    /\ pc' = "done"
    /\ UNCHANGED <<now, date, repeat, parsedDate, nextDate, days,
                   iter, advanced, snapped>>
    /\ UNCHANGED srvvars

\* Lines 771-784: a valid call parses the anchor and the interval.
Enter ==
    /\ pc = "start"
    /\ NextDateError(date, repeat) = ""
    /\ parsedDate' = Parse(date)
    /\ nextDate' = Parse(date)
    /\ days' = IF IsDailyRule(repeat) THEN Atoi(DaysStr(repeat)) ELSE 0
    /\ pc' = IF IsDailyRule(repeat) THEN "daily_first" ELSE "annual_first"
    /\ UNCHANGED <<now, date, repeat, result, err, iter, advanced, snapped>>
    /\ UNCHANGED srvvars

\* DailyFirst of the earlier revision: no unconditional first step.
DailyFirstNoStep ==
    /\ pc = "daily_first"
    /\ pc' = "daily_loop"
    /\ UNCHANGED <<now, date, repeat, parsedDate, nextDate, days, result,
                   err, iter, advanced, snapped>>
    /\ UNCHANGED srvvars

\* Line 787.
DailyFirst ==
    /\ pc = "daily_first"
    /\ nextDate' = DailyStep(nextDate, days)
    /\ advanced' = nextDate
    /\ iter' = iter + 1
    /\ pc' = "daily_loop"
    /\ UNCHANGED <<now, date, repeat, parsedDate, days, result, err, snapped>>
    /\ UNCHANGED srvvars

\* Lines 790-792.
DailyLoop ==
    /\ pc = "daily_loop"
    /\ LoopCond(nextDate, now)
    /\ iter < MaxIter
    /\ nextDate' = DailyStep(nextDate, days)
    /\ advanced' = nextDate
    /\ iter' = iter + 1
    /\ UNCHANGED <<now, date, repeat, pc, parsedDate, days, result, err,
                   snapped>>
    /\ UNCHANGED srvvars

\* Lines 796-816.
AnnualFirst ==
    /\ pc = "annual_first"
    /\ IF IsLeapDay(nextDate)
       THEN /\ nextDate' = LeapDayStep(nextDate)
            /\ snapped' = FALSE
       ELSE /\ snapped' = SnapFirst(parsedDate, AddYear(nextDate))
            /\ nextDate' = IF SnapFirst(parsedDate, AddYear(nextDate))
                           THEN Snap(AddYear(nextDate))
                           ELSE AddYear(nextDate)
    /\ advanced' = nextDate
    /\ iter' = iter + 1
    /\ pc' = "annual_loop"
    /\ UNCHANGED <<now, date, repeat, parsedDate, days, result, err>>
    /\ UNCHANGED srvvars

\* Lines 819-838.
AnnualLoop ==
    /\ pc = "annual_loop"
    /\ LoopCond(nextDate, now)
    /\ iter < MaxIter
    /\ IF IsLeapDay(nextDate)
       THEN /\ nextDate' = LeapDayStep(nextDate)
            /\ snapped' = FALSE
       ELSE /\ snapped' = SnapLoop(parsedDate, AddYear(nextDate))
            /\ nextDate' = IF SnapLoop(parsedDate, AddYear(nextDate))
                           THEN Snap(AddYear(nextDate))
                           ELSE AddYear(nextDate)
    /\ advanced' = nextDate
    /\ iter' = iter + 1
    /\ UNCHANGED <<now, date, repeat, pc, parsedDate, days, result, err>>
    /\ UNCHANGED srvvars

\* Line 844.
Return ==
    /\ pc \in {"daily_loop", "annual_loop"}
    /\ ~LoopCond(nextDate, now)
    /\ result' = Format(nextDate)
    /\ err' = ""
    /\ pc' = "done"
    /\ UNCHANGED <<now, date, repeat, parsedDate, nextDate, days,
                   iter, advanced, snapped>>
    /\ UNCHANGED srvvars

Next ==
    \/ Reject
    \/ Enter
    \/ DailyFirst
    \/ DailyLoop
    \/ AnnualFirst
    \/ AnnualLoop
    \/ Return

Spec == Init /\ [][Next]_vars

TypeOK ==
    /\ now \in Nows
    /\ date \in Anchors
    /\ repeat \in Rules
    /\ pc \in {"start", "daily_first", "daily_loop", "annual_first",
               "annual_loop", "done"}
    /\ err \in {"", "EmptyRule", "InvalidDate", "InvalidInterval",
                "UnsupportedRule"}
    /\ iter \in 0..MaxIter
    /\ snapped \in BOOLEAN

(***************************************************************************)
(* Properties of NextDate.                                                 *)
(***************************************************************************)
Succeeded == pc = "done" /\ err = ""

\* The texts that are the YYYYMMDD form of a day of the anchor years.
CalendarTexts ==
    {Format(d * TicksPerDay) :
        d \in DayNumber(Date(FirstYear, 1, 1))
              ..(DayNumber(Date(FirstYear + AnchorYearSpan + 1, 1, 1)) - 1)}

ValidAnchor == date \in CalendarTexts

MonthDayText(s) == SubSeq(s, 5, 8)

DomOfText(s) == DigitsValue(SubSeq(s, 7, 8))

YearOfText(s) == DigitsValue(SubSeq(s, 1, 4))

D20240126 == <<"2", "0", "2", "4", "0", "1", "2", "6">>
D20240131 == <<"2", "0", "2", "4", "0", "1", "3", "1">>
D20240201 == <<"2", "0", "2", "4", "0", "2", "0", "1">>
D20240228 == <<"2", "0", "2", "4", "0", "2", "2", "8">>
D20240229 == <<"2", "0", "2", "4", "0", "2", "2", "9">>
D20250131 == <<"2", "0", "2", "5", "0", "1", "3", "1">>
D20250228 == <<"2", "0", "2", "5", "0", "2", "2", "8">>
D20250301 == <<"2", "0", "2", "5", "0", "3", "0", "1">>

LeapDayText == <<"0", "2", "2", "9">>

MarchFirstText == <<"0", "3", "0", "1">>

NowOn(text) == DayNumber(now) = DayNumber(Parse(text))

NowInJanuary2024 == Year(now) = 2024 /\ Month(now) = 1

\* C1: for a rule "d n" with 1 <= n <= 400 and a valid anchor the returned
\* date is anchor + k*n days for some k >= 1, it is strictly after the
\* reference, and no smaller positive k gives a date after the reference.
C1_DailySmallestMultiple ==
    (Succeeded /\ IsDailyRule(repeat)) =>
        /\ days >= 1 /\ days <= 400
        /\ ParseOK(result)
        /\ Parse(result) > now
        /\ \E k \in 1..MaxIter :
              /\ DayNumber(Parse(result)) = DayNumber(Parse(date)) + k * days
              /\ \A j \in 1..(k - 1) :
                    (DayNumber(Parse(date)) + j * days) * TicksPerDay <= now

C1_Witness ==
    /\ Succeeded
    /\ IsDailyRule(repeat)
    /\ days = 7
    /\ iter >= 3
    /\ DayNumber(Parse(result)) = DayNumber(Parse(date)) + iter * days

\* C2: for rule "y" and a valid anchor the returned date is strictly after
\* the reference and keeps the anchor's month and day unless the anchor is
\* February 29 or a 31st; 20240131 gives 20250131 and 20240228 gives
\* 20250228 for a reference in January 2024.
C2_AnnualKeepsMonthDay ==
    (Succeeded /\ IsAnnualRule(repeat)) =>
        /\ ParseOK(result)
        /\ Parse(result) > now
        /\ (MonthDayText(date) # LeapDayText /\ DomOfText(date) # 31)
              => MonthDayText(result) = MonthDayText(date)
        /\ (date = D20240131 /\ NowInJanuary2024) => result = D20250131
        /\ (date = D20240228 /\ NowInJanuary2024) => result = D20250228

C2_Witness ==
    /\ Succeeded
    /\ IsAnnualRule(repeat)
    /\ iter >= 2
    /\ DomOfText(date) = 30
    /\ MonthDayText(result) = MonthDayText(date)
    /\ YearOfText(result) = YearOfText(date) + iter

\* C3: one annual step from a February 29 yields February 29 of the next
\* year when that year is a leap year and March 1 of the next year
\* otherwise, never February 28.
C3_LeapDayStepsToMarchFirst ==
    (IsAnnualRule(repeat) /\ iter >= 1 /\ IsLeapDay(advanced)) =>
        /\ nextDate = IF isLeapYear(Year(advanced) + 1)
                      THEN Date(Year(advanced) + 1, 2, 29)
                      ELSE Date(Year(advanced) + 1, 3, 1)
        /\ ~(Month(nextDate) = 2 /\ Day(nextDate) = 28)

C3_Witness ==
    /\ IsAnnualRule(repeat)
    /\ iter = 1
    /\ IsLeapDay(advanced)
    /\ Format(nextDate) = D20250301

\* C4: NextDate(20240126, "20240229", "y") and
\* NextDate(20240131, "20240229", "y") return "20250228".
C4_LeapDayGivesFeb28 ==
    (pc = "done" /\ date = D20240229 /\ IsAnnualRule(repeat)
        /\ (NowOn(D20240126) \/ NowOn(D20240131)))
        => (err = "" /\ result = D20250228)

\* C5: the result is strictly later than the anchor, and when the anchor
\* is already after the reference the result is exactly one step from the
\* anchor: anchor + n days for "d n", the anchor one year on for "y".
C5_AtLeastOneStep ==
    Succeeded =>
        /\ ParseOK(result)
        /\ Parse(result) > Parse(date)
        /\ (Parse(date) > now /\ IsDailyRule(repeat)) =>
              DayNumber(Parse(result)) = DayNumber(Parse(date)) + days
        /\ (Parse(date) > now /\ IsAnnualRule(repeat)) =>
              result = Pad4(YearOfText(date) + 1)
                          \o (IF MonthDayText(date) = LeapDayText
                              THEN MarchFirstText
                              ELSE MonthDayText(date))
        /\ (NowOn(D20240126) /\ date = D20240131
              /\ repeat = <<"d", " ", "1">>) => result = D20240201

C5_Witness ==
    /\ Succeeded
    /\ NowOn(D20240126)
    /\ date = D20240131
    /\ repeat = <<"d", " ", "1">>
    /\ iter = 1
    /\ result = D20240201

\* C6: with the empty rule NextDate fails with the empty-rule error for
\* every reference and every anchor, valid or not.
C6_EmptyRuleFails ==
    (pc = "done" /\ repeat = <<>>) => (err = "EmptyRule" /\ result = <<>>)

C6_Witness ==
    /\ pc = "done"
    /\ repeat = <<>>
    /\ ~ValidAnchor
    /\ err = "EmptyRule"

\* The rules "d <n>" of the input set whose n is missing, not an integer,
\* <= 0 or > 400, and those whose n is in 1..400.
BadIntervalRules ==
    { <<"d", " ">>,
      <<"d", " ", "0">>,
      <<"d", " ", "4", "0", "1">>,
      <<"d", " ", "4", "0", "5">>,
      <<"d", " ", "-", "1">>,
      <<"d", " ", "x">>,
      <<"d", " ", "1", " ", "0">> }

GoodIntervalRules ==
    { <<"d", " ", "1">>,
      <<"d", " ", "7">>,
      <<"d", " ", "3", "0">>,
      <<"d", " ", "4", "0", "0">>,
      <<"d", " ", "+", "7">>,
      <<"d", " ", " ", "7", " ">> }

\* C7 as stated: a rule "d <n>" with a bad n fails with the
\* invalid-interval error for every reference and every anchor, and with a
\* valid anchor and n in 1..400 the call succeeds.
C7_BadIntervalAnyAnchor ==
    /\ (pc = "done" /\ repeat \in BadIntervalRules)
          => err = "InvalidInterval"
    /\ (pc = "done" /\ repeat \in GoodIntervalRules /\ ValidAnchor)
          => err = ""

\* C7 amended: a rule "d <n>" with a bad n fails with the invalid-interval
\* error for every reference and every valid anchor, and with the
\* invalid-date error when the anchor is not a valid date; with a valid
\* anchor and n in 1..400 (1 and 400 included) the call does not fail.
C7_BadIntervalValidAnchor ==
    /\ (pc = "done" /\ repeat \in BadIntervalRules)
          => err = (IF ValidAnchor THEN "InvalidInterval" ELSE "InvalidDate")
    /\ (pc # "start" /\ repeat \in GoodIntervalRules /\ ValidAnchor)
          => (err = "" /\ days >= 1 /\ days <= 400)

C7_Witness ==
    /\ pc = "done"
    /\ repeat = <<"d", " ", "4", "0", "1">>
    /\ ValidAnchor
    /\ err = "InvalidInterval"

\* C8: a non-empty rule with an anchor that is not a valid YYYYMMDD
\* calendar date fails with the invalid-date error, whatever the rule: the
\* error takes precedence over the invalid-interval and unsupported-rule
\* errors.
C8_InvalidDateFirst ==
    (pc = "done" /\ repeat # <<>> /\ ~ValidAnchor) => err = "InvalidDate"

C8_Witness ==
    /\ pc = "done"
    /\ repeat = <<"d", " ", "0">>
    /\ date = <<"2", "0", "2", "3", "0", "2", "2", "9">>
    /\ err = "InvalidDate"

StartsWithDSpace(r) == Len(r) >= 2 /\ r[1] = "d" /\ r[2] = " "

\* C9: with a valid anchor NextDate fails with the unsupported-rule error
\* exactly for the non-empty rules that neither start with "d " nor are
\* "y".
C9_UnsupportedRule ==
    (pc = "done" /\ ValidAnchor) =>
        (err = "UnsupportedRule"
            <=> (repeat # <<>> /\ ~StartsWithDSpace(repeat)
                    /\ repeat # <<"y">>))

C9_Witness ==
    /\ pc = "done"
    /\ ValidAnchor
    /\ repeat = <<"d">>
    /\ err = "UnsupportedRule"

\* C10: on every annual step, the first and the later ones, the day-31
\* snap is applied exactly when the anchor's day of month is 31.
C10_SnapFollowsAnchorDay ==
    (IsAnnualRule(repeat) /\ iter >= 1) =>
        (snapped <=> DomOfText(date) = 31)

C10_Witness ==
    /\ IsAnnualRule(repeat)
    /\ iter >= 2
    /\ snapped
    /\ DomOfText(date) = 31
    /\ Day(advanced) = 31

(***************************************************************************)
(* NextDate as the function its callers use: the same statements, run on   *)
(* the locals of one invocation.                                           *)
(***************************************************************************)
NextDateCall(n, d, r) ==
    [now |-> n, date |-> d, repeat |-> r, pc |-> "start",
     parsedDate |-> 0, nextDate |-> 0, days |-> 0,
     result |-> <<>>, err |-> ""]

\* Lines 796-816.
AnnualFirstStep(parsed, t) ==
    IF IsLeapDay(t) THEN LeapDayStep(t)
    ELSE IF SnapFirst(parsed, AddYear(t)) THEN Snap(AddYear(t))
    ELSE AddYear(t)

\* Lines 821-837.
AnnualLoopStep(parsed, t) ==
    IF IsLeapDay(t) THEN LeapDayStep(t)
    ELSE IF SnapLoop(parsed, AddYear(t)) THEN Snap(AddYear(t))
    ELSE AddYear(t)

\* One step of an invocation with locals l.
NextDateStep(l) ==
    IF l.pc = "start"
    THEN IF NextDateError(l.date, l.repeat) # ""
         THEN [l EXCEPT !.err = NextDateError(l.date, l.repeat),
                        !.pc = "done"]
         ELSE [l EXCEPT !.parsedDate = Parse(l.date),
                        !.nextDate = Parse(l.date),
                        !.days = IF IsDailyRule(l.repeat)
                                 THEN Atoi(DaysStr(l.repeat)) ELSE 0,
                        !.pc = IF IsDailyRule(l.repeat)
                               THEN "daily_first" ELSE "annual_first"]
    ELSE IF l.pc = "daily_first"
    THEN [l EXCEPT !.nextDate = DailyStep(l.nextDate, l.days),
                   !.pc = "daily_loop"]
    ELSE IF l.pc = "annual_first"
    THEN [l EXCEPT !.nextDate = AnnualFirstStep(l.parsedDate, l.nextDate),
                   !.pc = "annual_loop"]
    ELSE IF l.pc \in {"daily_loop", "annual_loop"}
              /\ ~LoopCond(l.nextDate, l.now)
    THEN [l EXCEPT !.result = Format(l.nextDate), !.pc = "done"]
    ELSE IF l.pc = "daily_loop"
    THEN [l EXCEPT !.nextDate = DailyStep(l.nextDate, l.days)]
    ELSE IF l.pc = "annual_loop"
    THEN [l EXCEPT !.nextDate = AnnualLoopStep(l.parsedDate, l.nextDate)]
    ELSE l

RECURSIVE NextDateRun(_)
NextDateRun(l) ==
    IF l.pc = "done" THEN l ELSE NextDateRun(NextDateStep(l))

\* NextDate(now, date, repeat): the returned string and error.
NextDate(n, d, r) ==
    LET l == NextDateRun(NextDateCall(n, d, r))
    IN  [result |-> l.result, err |-> l.err]

\* The step-by-step invocation and the function agree on every result.
RunAgrees ==
    pc = "done" =>
        (NextDate(now, date, repeat) = [result |-> result, err |-> err])

(***************************************************************************)
(* Wall clock and time zone.  time.Now() is an instant read in            *)
(* time.Local, whose offset east of UTC is zone; time.Parse reads a date   *)
(* as midnight UTC.                                                        *)
(***************************************************************************)
Zones == {0 - 1, 0, 1}

ClockMin == Date(2024, 1, 26)

Clocks == ClockMin..(ClockMin + MaxClock)

\* t.Format(DateFormat) of a time in time.Local.
FormatIn(t, z) == Format(t + z)

\* time.Date(now.Year(), now.Month(), now.Day(), 0, 0, 0, 0,
\* now.Location()) of now = time.Now(): midnight of the local day.
Today(t, z) == Date(Year(t + z), Month(t + z), Day(t + z)) - z

Before(t, u) == t < u

(***************************************************************************)
(* The scheduler table and the requests on it.                             *)
(***************************************************************************)
\* What a request carries: whether its body is JSON, the fields of the
\* task in it, its query argument (id or now), the password of a sign-in
\* body and the token cookie.
Request(json, title, d, comment, r, arg) ==
    [json |-> json, title |-> title, date |-> d, comment |-> comment,
     repeat |-> r, arg |-> arg,
     password |-> <<>>, hasCookie |-> FALSE, cookie |-> <<>>]

BadJSON == Request(FALSE, <<>>, <<>>, <<>>, <<>>, <<>>)

Query(d, r, arg) == Request(TRUE, <<>>, d, <<>>, r, arg)

\* The answer to a request: its status, the id it names, its body and
\* whether it carries an error message.
Answer(op, req, status, id, body) ==
    [op |-> op, req |-> req, status |-> status, id |-> id, body |-> body,
     error |-> status >= 400]

NoAnswer == Answer("none", BadJSON, 0, 0, <<>>)

D20240125 == <<"2", "0", "2", "4", "0", "1", "2", "5">>

AddDates == { <<>>, D20240125, D20240126,
              <<"2", "0", "2", "4", "0", "1", "3">> }

AddRules == { <<>>, <<"d", " ", "1">>,
              <<"w", "e", "e", "k", "l", "y">> }

TitleA == <<"a">>

\* The bodies of POST /api/task: text that is not JSON, a task without a
\* title, and tasks with a title.
AddBodies ==
    {BadJSON}
        \cup {Request(TRUE, <<>>, D20240126, <<>>, <<>>, <<>>)}
        \cup {Request(TRUE, TitleA, d, <<>>, r, <<>>) :
                 d \in AddDates, r \in AddRules}

IdStrings == { <<>>, <<"0">>, <<"1">>, <<"2">>, <<"x">> }

\* handleAddTask storing a past date as submitted.
AddTaskDateAsSubmitted(b, t, z) ==
    IF ~b.json THEN [status |-> 400, date |-> <<>>]
    ELSE IF b.title = <<>> THEN [status |-> 400, date |-> <<>>]
    ELSE LET d == IF b.date = <<>> THEN FormatIn(t, z) ELSE b.date
         IN  IF ~ParseOK(d) THEN [status |-> 400, date |-> <<>>]
             ELSE [status |-> 200, date |-> d]

\* handleAddTask, lines 301-342: the status and the date to store.
AddTaskDate(b, t, z) ==
    IF ~b.json THEN [status |-> 400, date |-> <<>>]
    ELSE IF b.title = <<>> THEN [status |-> 400, date |-> <<>>]
    ELSE LET d == IF b.date = <<>> THEN FormatIn(t, z) ELSE b.date
             today == Today(t, z)
         IN  IF ~ParseOK(d) THEN [status |-> 400, date |-> <<>>]
             ELSE IF ~Before(Parse(d), today)
             THEN [status |-> 200, date |-> d]
             ELSE IF b.repeat = <<>>
             THEN [status |-> 200, date |-> FormatIn(today, z)]
             ELSE IF NextDate(today, d, b.repeat).err # ""
             THEN [status |-> 400, date |-> <<>>]
             ELSE [status |-> 200,
                   date |-> NextDate(today, d, b.repeat).result]

\* INSERT INTO scheduler (title, date, comment, repeat), lines 344-347.
Insert(t, id, row) == [i \in (DOMAIN t) \cup {id} |->
                          IF i = id THEN row ELSE t[i]]

\* DELETE FROM scheduler WHERE id = ?, line 626.
Delete(t, id) == [i \in (DOMAIN t) \ {id} |-> t[i]]

\* UpdateDate writing the date of every row.
UpdateDateAllRows(t, id, d) == [i \in DOMAIN t |-> [t[i] EXCEPT !.date = d]]

\* UPDATE scheduler SET date = ? WHERE id = ?, lines 649-653.
UpdateDate(t, id, d) ==
    [i \in DOMAIN t |-> IF i = id THEN [t[i] EXCEPT !.date = d] ELSE t[i]]

HandlerInit ==
    /\ zone \in Zones
    /\ clock = ClockMin
    /\ tasks = <<>>
    /\ nextId = 1
    /\ last = NoAnswer
    /\ calls = <<>>
    /\ password = <<>>
    /\ now = 0
    /\ date = <<>>
    /\ repeat = <<>>
    /\ pc = "idle"
    /\ parsedDate = 0
    /\ nextDate = 0
    /\ days = 0
    /\ result = <<>>
    /\ err = ""
    /\ iter = 0
    /\ advanced = 0
    /\ snapped = FALSE

Tick ==
    /\ clock < ClockMin + MaxClock
    /\ clock' = clock + 1
    /\ UNCHANGED <<zone, tasks, nextId, calls, password, last>>
    /\ UNCHANGED ndvars

\* handleAddTask, lines 300-365.
AddTask ==
    \E b \in AddBodies :
        LET a == AddTaskDate(b, clock, zone)
        IN  /\ IF a.status = 200
               THEN /\ nextId <= MaxTasks
                    /\ tasks' = Insert(tasks, nextId,
                                       [date |-> a.date, title |-> b.title,
                                        comment |-> b.comment,
                                        repeat |-> b.repeat])
                    /\ nextId' = nextId + 1
                    /\ last' = Answer("add", b, 200, nextId, <<>>)
               ELSE /\ last' = Answer("add", b, 400, 0, <<>>)
                    /\ UNCHANGED <<tasks, nextId>>
            /\ UNCHANGED <<zone, clock, calls, password>>
            /\ UNCHANGED ndvars

\* Lines 591-603: the id is missing, not a number or not positive.
IdBad(s) == IF s = <<>> \/ ~AtoiOK(s) THEN TRUE ELSE Atoi(s) <= 0

\* handleDoneTask, lines 589-603: a request with a bad id.
DoneBadId ==
    \E s \in IdStrings :
        /\ IdBad(s)
        /\ last' = Answer("done", Query(<<>>, <<>>, s), 400, 0, <<>>)
        /\ UNCHANGED <<zone, clock, tasks, nextId, calls, password>>
        /\ UNCHANGED ndvars

\* Lines 605-621: the task is not in the table.
DoneNotFound ==
    \E s \in IdStrings :
        /\ ~IdBad(s)
        /\ Atoi(s) \notin DOMAIN tasks
        /\ last' = Answer("done", Query(<<>>, <<>>, s), 404, Atoi(s), <<>>)
        /\ UNCHANGED <<zone, clock, tasks, nextId, calls, password>>
        /\ UNCHANGED ndvars

\* Lines 605-635: a task without a rule is deleted.
DoneDelete ==
    \E s \in IdStrings :
        /\ ~IdBad(s)
        /\ Atoi(s) \in DOMAIN tasks
        /\ tasks[Atoi(s)].repeat = <<>>
        /\ tasks' = Delete(tasks, Atoi(s))
        /\ last' = Answer("done", Query(<<>>, <<>>, s), 200, Atoi(s), <<>>)
        /\ UNCHANGED <<zone, clock, nextId, calls, password>>
        /\ UNCHANGED ndvars

\* Lines 605-621 and 637-662: a task with a rule gets the date NextDate
\* computes from time.Now(), or the request fails with 400 when NextDate
\* fails.
DoneAdvance ==
    \E s \in IdStrings :
        /\ ~IdBad(s)
        /\ Atoi(s) \in DOMAIN tasks
        /\ tasks[Atoi(s)].repeat # <<>>
        /\ DayNumber(Parse(tasks[Atoi(s)].date))
              <= DayNumber(ClockMin) + MaxAheadDays
        /\ LET n == NextDate(clock, tasks[Atoi(s)].date,
                             tasks[Atoi(s)].repeat)
           IN  IF n.err # ""
               THEN /\ last' = Answer("done", Query(<<>>, <<>>, s), 400,
                                      Atoi(s), <<>>)
                    /\ UNCHANGED tasks
               ELSE /\ tasks' = UpdateDate(tasks, Atoi(s), n.result)
                    /\ last' = Answer("done", Query(<<>>, <<>>, s), 200,
                                      Atoi(s), <<>>)
        /\ UNCHANGED <<zone, clock, nextId, calls, password>>
        /\ UNCHANGED ndvars

\* handleUpdateTask, lines 493-510: the rule passes the checks.
UpdateRuleOK(r) ==
    IF r = <<>> THEN TRUE
    ELSE IF HasPrefix(r, DPrefix)
    THEN AtoiOK(DaysStr(r)) /\ Atoi(DaysStr(r)) > 0
    ELSE r = <<"y">>

\* handleUpdateTask writing the row before it tests the rule.
UpdateStatusRuleLast(b, t, z, store) ==
    IF ~b.json THEN [status |-> 400, date |-> <<>>, write |-> FALSE]
    ELSE IF IdBad(b.arg) THEN [status |-> 400, date |-> <<>>, write |-> FALSE]
    ELSE IF b.title = <<>>
    THEN [status |-> 400, date |-> <<>>, write |-> FALSE]
    ELSE LET d == IF b.date = <<>> THEN FormatIn(t, z) ELSE b.date
         IN  IF ~ParseOK(d)
             THEN [status |-> 400, date |-> <<>>, write |-> FALSE]
             ELSE IF Before(Parse(d), Today(t, z))
             THEN [status |-> 400, date |-> <<>>, write |-> FALSE]
             ELSE IF Atoi(b.arg) \notin DOMAIN store
             THEN [status |-> 404, date |-> <<>>, write |-> FALSE]
             ELSE IF ~UpdateRuleOK(b.repeat)
             THEN [status |-> 400, date |-> d, write |-> TRUE]
             ELSE [status |-> 200, date |-> d, write |-> TRUE]

\* handleUpdateTask, lines 421-541: the status, the date to store and
\* whether the UPDATE changes a row.
UpdateStatus(b, t, z, store) ==
    IF ~b.json THEN [status |-> 400, date |-> <<>>, write |-> FALSE]
    ELSE IF IdBad(b.arg) THEN [status |-> 400, date |-> <<>>, write |-> FALSE]
    ELSE IF b.title = <<>>
    THEN [status |-> 400, date |-> <<>>, write |-> FALSE]
    ELSE LET d == IF b.date = <<>> THEN FormatIn(t, z) ELSE b.date
         IN  IF ~ParseOK(d)
             THEN [status |-> 400, date |-> <<>>, write |-> FALSE]
             ELSE IF Before(Parse(d), Today(t, z))
             THEN [status |-> 400, date |-> <<>>, write |-> FALSE]
             ELSE IF ~UpdateRuleOK(b.repeat)
             THEN [status |-> 400, date |-> <<>>, write |-> FALSE]
             ELSE IF Atoi(b.arg) \notin DOMAIN store
             THEN [status |-> 404, date |-> <<>>, write |-> FALSE]
             ELSE [status |-> 200, date |-> d, write |-> TRUE]

\* The table after handleUpdateTask has served body b: UPDATE scheduler
\* SET title=?, date=?, comment=?, repeat=? WHERE id=?, lines 516-520.
UpdateResult(b, t, z, store) ==
    IF UpdateStatus(b, t, z, store).write
    THEN [i \in DOMAIN store |->
             IF i = Atoi(b.arg)
             THEN [date |-> UpdateStatus(b, t, z, store).date,
                   title |-> b.title, comment |-> b.comment,
                   repeat |-> b.repeat]
             ELSE store[i]]
    ELSE store

\* handleDeleteTask, lines 549-582: the status.
DeleteStatus(s, store) ==
    IF s = <<>> THEN 400
    ELSE IF ~AtoiOK(s) THEN 400
    ELSE IF Atoi(s) \notin DOMAIN store THEN 404
    ELSE 200

HandlerNext ==
    \/ Tick
    \/ AddTask
    \/ DoneBadId
    \/ DoneNotFound
    \/ DoneDelete
    \/ DoneAdvance

HandlerSpec == HandlerInit /\ [][HandlerNext]_vars

(***************************************************************************)
(* Claims on the handlers of the scheduler table.                          *)
(***************************************************************************)
\* C11 (as amended): a done request on a stored task with a non-empty rule
\* for which NextDate succeeds sets that task's date to the date NextDate
\* returns for (time.Now(), its date, its rule) and changes nothing else in
\* the table; when NextDate fails the request is answered 400 and the table
\* is unchanged; a done request on a stored task with an empty rule removes
\* that task and no other.
C11_DoneFrame ==
    [][\A id \in DOMAIN tasks :
          (/\ last'.op = "done"
           /\ last'.id = id
           /\ clock' = clock
           /\ <<tasks, last>>' # <<tasks, last>>)
          => IF tasks[id].repeat = <<>>
             THEN /\ DOMAIN tasks' = (DOMAIN tasks) \ {id}
                  /\ \A j \in DOMAIN tasks' : tasks'[j] = tasks[j]
             ELSE LET n == NextDate(clock, tasks[id].date, tasks[id].repeat)
                  IN  IF n.err = ""
                      THEN tasks' = [tasks EXCEPT ![id].date = n.result]
                      ELSE /\ tasks' = tasks
                           /\ last'.status = 400]_vars

\* C11 as first stated: every done request on a stored task with a
\* non-empty rule sets the task's date to what NextDate returns.
C11_DoneAlwaysSetsDate ==
    [][\A id \in DOMAIN tasks :
          (/\ last'.op = "done"
           /\ last'.id = id
           /\ clock' = clock
           /\ <<tasks, last>>' # <<tasks, last>>
           /\ tasks[id].repeat # <<>>)
          => tasks' = [tasks EXCEPT
                          ![id].date = NextDate(clock, tasks[id].date,
                                                tasks[id].repeat).result]]_vars

\* A recurring task has just been marked done, its date now lies after the
\* clock, and another task is stored next to it.
C11_Witness ==
    /\ last.op = "done"
    /\ last.status = 200
    /\ last.id \in DOMAIN tasks
    /\ tasks[last.id].repeat # <<>>
    /\ Parse(tasks[last.id].date) > clock
    /\ \E j \in DOMAIN tasks : j # last.id

\* C12: an add request with a title and a valid date stores the submitted
\* date when that date is not before today's date; today when it is before
\* today and the rule is empty; NextDate(today, submitted date, rule) when
\* it is before today and the rule is not empty; and is answered 400 with
\* nothing stored when NextDate fails in that last case.
C12_AddStoresDate ==
    [][(/\ last'.op = "add"
        /\ clock' = clock
        /\ <<tasks, last>>' # <<tasks, last>>
        /\ last'.req.json
        /\ last'.req.title # <<>>
        /\ ParseOK(last'.req.date))
       => LET b == last'.req
              today == Today(clock, zone)
              past == DayNumber(Parse(b.date)) < DayNumber(today + zone)
              n == NextDate(today, b.date, b.repeat)
              stored == IF ~past THEN b.date
                        ELSE IF b.repeat = <<>> THEN FormatIn(today, zone)
                        ELSE n.result
          IN  IF past /\ b.repeat # <<>> /\ n.err # ""
              THEN /\ last'.status = 400
                   /\ tasks' = tasks
              ELSE /\ last'.status = 200
                   /\ last'.id \notin DOMAIN tasks
                   /\ tasks' = Insert(tasks, last'.id,
                                      [date |-> stored, title |-> b.title,
                                       comment |-> b.comment,
                                       repeat |-> b.repeat])]_vars

(***************************************************************************)
(* The handlers that keep no state between requests: /api/nextdate,        *)
(* /api/signin and the auth middleware.                                    *)
(***************************************************************************)
\* The call of makeJWT or validateJWT a step consists of, and what it
\* returned; NoJwtCall when the step is a request.
JwtCall(fn, token, q, ok, out) ==
    [fn |-> fn, token |-> token, password |-> q, ok |-> ok, out |-> out]

NoJwtCall == JwtCall("none", <<>>, <<>>, FALSE, <<>>)

NowStrings == { <<>>, D20240126, D20240131,
                <<"2", "0", "2", "4", "0", "2", "3", "0">> }

NextDateDates == { D20240126, D20240229,
                   <<"2", "0", "2", "3", "0", "2", "2", "9">> }

NextDateRules == { <<>>, <<"d", " ", "7">>, <<"y">>,
                   <<"d", " ", "4", "0", "5">> }

\* handleNextDate answering errors with status 400.
HandleNextDateStatus(n, d, r) ==
    IF ~ParseOK(n) THEN [status |-> 400, body |-> <<>>]
    ELSE IF NextDate(Parse(n), d, r).err # ""
    THEN [status |-> 400, body |-> <<>>]
    ELSE [status |-> 200, body |-> NextDate(Parse(n), d, r).result]

\* handleNextDate, lines 852-879.  No branch calls WriteHeader, so every
\* answer goes out with net/http's default status 200.
HandleNextDate(n, d, r) ==
    IF ~ParseOK(n) THEN [status |-> 200, body |-> <<>>]
    ELSE IF NextDate(Parse(n), d, r).err # ""
    THEN [status |-> 200, body |-> <<>>]
    ELSE [status |-> 200, body |-> NextDate(Parse(n), d, r).result]

\* GET /api/nextdate?now=n&date=d&repeat=r
NextDateRequest ==
    \E n \in NowStrings, d \in NextDateDates, r \in NextDateRules :
        /\ last' = Answer("nextdate", Query(d, r, n),
                          HandleNextDate(n, d, r).status, 0,
                          HandleNextDate(n, d, r).body)
        /\ calls' = NoJwtCall
        /\ UNCHANGED <<zone, clock, tasks, nextId, password>>
        /\ UNCHANGED ndvars

\* C13: the answer of /api/nextdate never has an error status; its body is
\* the date NextDate returns when now parses and NextDate succeeds, and is
\* empty when now does not parse or NextDate fails.
C13_NextDateNeverErrorStatus ==
    last.op = "nextdate" =>
        /\ last.status = 200
        /\ ~last.error
        /\ last.body =
              IF ~ParseOK(last.req.arg) THEN <<>>
              ELSE IF NextDate(Parse(last.req.arg), last.req.date,
                               last.req.repeat).err # "" THEN <<>>
              ELSE NextDate(Parse(last.req.arg), last.req.date,
                            last.req.repeat).result

\* /api/nextdate has answered a request whose now parses and on which
\* NextDate fails.
C13_Witness ==
    /\ last.op = "nextdate"
    /\ ParseOK(last.req.arg)
    /\ NextDate(Parse(last.req.arg), last.req.date,
                last.req.repeat).err # ""
    /\ last.status = 200
    /\ last.body = <<>>

(***************************************************************************)
(* Invocations of NextDate running side by side, as the goroutines of      *)
(* net/http run them: each has its own locals, and the steps of different  *)
(* invocations interleave.                                                 *)
(***************************************************************************)
CallIds == {"a", "b"}

\* The locals of an invocation that has not been made yet.
NoCall == [NextDateCall(0, <<>>, <<>>) EXCEPT !.pc = "idle"]

\* The references: time.Now() from midnight UTC of a day to the next.
CallRefs == ClockMin..(ClockMin + TicksPerDay)

CallDates == { D20240125, D20240126,
               <<"2", "0", "2", "4", "0", "1", "3">> }

CallRules == { <<"d", " ", "1">>, <<"y">> }

\* The row the table holds while the invocations run.
StoredRow == [date |-> D20240126, title |-> TitleA, comment |-> <<>>,
              repeat |-> <<"d", " ", "1">>]

\* The calendar date of an instant in time.Local, as a day number.
LocalDay(t, z) == DayNumber(t + z)

\* Locals kept in one place for all invocations: a step of one invocation
\* also overwrites nextDate of every other running one.
StoreShared(cs, c, l) ==
    [x \in DOMAIN cs |->
        IF x = c THEN l
        ELSE IF cs[x].pc \in {"idle", "start", "done"} THEN cs[x]
        ELSE [cs[x] EXCEPT !.nextDate = l.nextDate]]

\* parsedDate, nextDate and days are variables of the function body
\* (lines 771, 775, 781): a step writes the locals of its own invocation.
Store(cs, c, l) == [cs EXCEPT ![c] = l]

ConcInit ==
    /\ zone \in Zones
    /\ calls = [c \in CallIds |-> NoCall]
    /\ tasks = <<StoredRow>>
    /\ nextId = 2
    /\ clock = ClockMin
    /\ last = NoAnswer
    /\ password = <<>>
    /\ now = 0
    /\ date = <<>>
    /\ repeat = <<>>
    /\ pc = "idle"
    /\ parsedDate = 0
    /\ nextDate = 0
    /\ days = 0
    /\ result = <<>>
    /\ err = ""
    /\ iter = 0
    /\ advanced = 0
    /\ snapped = FALSE

\* A goroutine calls NextDate(n, d, r).
CallStart(c) ==
    /\ calls[c].pc = "idle"
    /\ \E n \in CallRefs, d \in CallDates, r \in CallRules :
           calls' = Store(calls, c, NextDateCall(n, d, r))
    /\ UNCHANGED <<zone, clock, tasks, nextId, password, last>>
    /\ UNCHANGED ndvars

\* The invocation of goroutine c takes its next step.
CallStep(c) ==
    /\ calls[c].pc \notin {"idle", "done"}
    /\ calls' = Store(calls, c, NextDateStep(calls[c]))
    /\ UNCHANGED <<zone, clock, tasks, nextId, password, last>>
    /\ UNCHANGED ndvars

ConcNext ==
    \E c \in CallIds :
        \/ CallStart(c)
        \/ CallStep(c)

ConcSpec == ConcInit /\ [][ConcNext]_vars

\* C14: two invocations with the same anchor and rule, whose references
\* fall on the same calendar date, return the same date and error.
C14_TimeOfDayIrrelevant ==
    \A c \in CallIds, e \in CallIds :
        (/\ calls[c].pc = "done"
         /\ calls[e].pc = "done"
         /\ calls[c].date = calls[e].date
         /\ calls[c].repeat = calls[e].repeat
         /\ LocalDay(calls[c].now, zone) = LocalDay(calls[e].now, zone))
        => /\ calls[c].result = calls[e].result
           /\ calls[c].err = calls[e].err

\* C16: every finished invocation, whatever ran interleaved with it, has
\* returned what NextDate returns for its reference, anchor and rule when
\* run alone, and the stored tasks are what they were.
C16_DeterministicAndIsolated ==
    /\ tasks = <<StoredRow>>
    /\ \A c \in CallIds :
          calls[c].pc = "done" =>
              NextDate(calls[c].now, calls[c].date, calls[c].repeat)
                  = [result |-> calls[c].result, err |-> calls[c].err]

\* Two invocations with different arguments have both returned a date, and
\* the dates differ.
C16_Witness ==
    /\ calls["a"].pc = "done"
    /\ calls["b"].pc = "done"
    /\ calls["a"].err = ""
    /\ calls["b"].err = ""
    /\ calls["a"].repeat # calls["b"].repeat
    /\ calls["a"].result # calls["b"].result

(***************************************************************************)
(* Termination of NextDate.                                                *)
(***************************************************************************)
\* C15: an invalid call returns its error at once, without an iteration;
\* every iteration, daily or annual, moves nextDate strictly forward; the
\* number of iterations never exceeds one plus the days from the anchor to
\* the reference; and a call that returns a date returns one after the
\* reference.
C15_Terminates ==
    /\ [](pc \in {"daily_loop", "annual_loop", "done"} /\ err = ""
            => iter <= 1 + (IF now >= parsedDate
                            THEN DayNumber(now) - DayNumber(parsedDate)
                            ELSE 0))
    /\ [][/\ (pc = "start" /\ NextDateError(date, repeat) # "")
                => (pc' = "done" /\ err' # "" /\ iter' = 0)
          /\ (iter' # iter) => (nextDate' > nextDate)
          /\ (pc' = "done" /\ err' = "") => (nextDate' > now)]_vars

\* A call has left the catch-up loop after three or more iterations, with
\* a date after the reference.
C15_Witness ==
    /\ pc = "done"
    /\ err = ""
    /\ iter >= 3
    /\ nextDate > now

(***************************************************************************)
(* Tokens, src/main.go 34-104.  A text is a sequence of bytes, each byte    *)
(* a string.  The digests are symbolic: the digest of a text is the text   *)
(* behind a tag, so different inputs have different digests.  Base64       *)
(* writes every byte in an alphabet of its own, which has no ".".          *)
(***************************************************************************)
\* The values of TODO_PASSWORD: unset, and two passwords.
Passwords == { <<>>, <<"p">>, <<"q">> }

Salt == <<"S", "a", "l", "t", "7", "7", "7">>

SecretKey == <<"M", "y", "S", "u", "p", "e", "r", "S", "e", "c", "r", "e", "t">>

\* {"alg":"HS256","typ":"JWT"}
HeaderJSON ==
    <<"{", "\"", "a", "l", "g", "\"", ":", "\"", "H", "S", "2", "5", "6",
      "\"", ",", "\"", "t", "y", "p", "\"", ":", "\"", "J", "W", "T", "\"",
      "}">>

EmptyJSON == <<"{", "}">>

\* {"pwdhash":"
PwdPrefix ==
    <<"{", "\"", "p", "w", "d", "h", "a", "s", "h", "\"", ":", "\"">>

\* "}
PwdSuffix == <<"\"", "}">>

Dot == <<".">>

\* sha256.Sum256
Sum256(s) == <<"sha256">> \o s

\* hmac.New(sha256.New, key), Write(m), Sum(nil)
HmacSum(key, m) == <<"hmac">> \o key \o <<"|">> \o m

\* base64.RawURLEncoding.EncodeToString
EncodeToString(s) == [i \in 1..Len(s) |-> "=" \o s[i]]

\* makePasswordHash, lines 100-104.
makePasswordHash(p) == EncodeToString(Sum256(p \o Salt))

\* fmt.Sprintf(`{"pwdhash":"%s"}`, hash), line 45.
PayloadJSON(hash) == PwdPrefix \o hash \o PwdSuffix

\* Lines 49-53 and 70-73: the signature of header.payload.
Sign(header, payload) ==
    EncodeToString(HmacSum(SecretKey, header \o Dot \o payload))

\* makeJWT without the test for the empty password.
makeJWTAnyPassword(p) ==
    LET header == EncodeToString(HeaderJSON)
        payload == EncodeToString(PayloadJSON(makePasswordHash(p)))
    IN  [token |-> header \o Dot \o payload \o Dot \o Sign(header, payload),
         err |-> FALSE]

\* makeJWT, lines 34-57.
makeJWT(p) ==
    IF p = <<>> THEN [token |-> <<>>, err |-> TRUE]
    ELSE LET header == EncodeToString(HeaderJSON)
             payload == EncodeToString(PayloadJSON(makePasswordHash(p)))
         IN  [token |-> header \o Dot \o payload \o Dot
                          \o Sign(header, payload),
              err |-> FALSE]

\* The texts found as payloads: the payload of each password, an object
\* without fields, and a text that is not JSON.
PayloadTexts ==
    {PayloadJSON(makePasswordHash(p)) : p \in Passwords \ {<<>>}}
        \cup {EmptyJSON, <<"x">>}

\* The bytes of the texts that are encoded.
ByteAtoms ==
    UNION {{s[i] : i \in 1..Len(s)} : s \in PayloadTexts \cup {HeaderJSON}}

\* base64.RawURLEncoding.DecodeString: err == nil.
DecodeOK(e) ==
    \A i \in 1..Len(e) : \E c \in ByteAtoms : "=" \o c = e[i]

\* base64.RawURLEncoding.DecodeString: the bytes.
DecodeString(e) ==
    [i \in 1..Len(e) |-> CHOOSE c \in ByteAtoms : "=" \o c = e[i]]

\* strings.Split(s, "."): the texts between the dots.
RECURSIVE Split(_)
Split(s) ==
    IF \A i \in 1..Len(s) : s[i] # "."
    THEN <<s>>
    ELSE LET i == CHOOSE k \in 1..Len(s) :
                      /\ s[k] = "."
                      /\ \A m \in 1..(k - 1) : s[m] # "."
         IN  <<SubSeq(s, 1, i - 1)>> \o Split(SubSeq(s, i + 1, Len(s)))

HasSuffix(s, suffix) ==
    /\ Len(s) >= Len(suffix)
    /\ SubSeq(s, Len(s) - Len(suffix) + 1, Len(s)) = suffix

\* json.Unmarshal(payBytes, &p), lines 85-88, on the payload texts: an
\* object with the one string field pwdhash, or an object without fields,
\* is read; any other of these texts is an error.
UnmarshalOK(s) ==
    \/ s = EmptyJSON
    \/ /\ HasPrefix(s, PwdPrefix)
       /\ HasSuffix(s, PwdSuffix)
       /\ Len(s) >= Len(PwdPrefix) + Len(PwdSuffix)
       /\ \A i \in (Len(PwdPrefix) + 1)..(Len(s) - Len(PwdSuffix)) :
             s[i] \notin {"\"", "\\"}

\* p.PwdHash after json.Unmarshal.
PwdHashOf(s) ==
    IF s = EmptyJSON THEN <<>>
    ELSE SubSeq(s, Len(PwdPrefix) + 1, Len(s) - Len(PwdSuffix))

\* validateJWT without the comparison of pwdhash with the current hash.
validateJWTAnyHash(token, q) ==
    LET parts == Split(token)
    IN  IF Len(parts) # 3 THEN FALSE
        ELSE IF parts[3] # Sign(parts[1], parts[2]) THEN FALSE
        ELSE IF ~DecodeOK(parts[2]) THEN FALSE
        ELSE UnmarshalOK(DecodeString(parts[2]))

\* validateJWT, lines 60-97.
validateJWT(token, q) ==
    LET parts == Split(token)
    IN  IF Len(parts) # 3 THEN FALSE
        ELSE IF parts[3] # Sign(parts[1], parts[2]) THEN FALSE
        ELSE IF ~DecodeOK(parts[2]) THEN FALSE
        ELSE IF ~UnmarshalOK(DecodeString(parts[2])) THEN FALSE
        ELSE PwdHashOf(DecodeString(parts[2])) = makePasswordHash(q)

\* The headers, payloads and signatures tokens are put together from.
JwtHeaders == {EncodeToString(HeaderJSON), EncodeToString(EmptyJSON)}

JwtPayloads == {EncodeToString(s) : s \in PayloadTexts} \cup {<<"!">>}

BadSign == EncodeToString(<<"0">>)

\* The tokens presented: every header, payload and signature joined by
\* dots, the empty text, a token of two parts and a token of four.
Tokens ==
    {h \o Dot \o pl \o Dot \o sg :
        h \in JwtHeaders, pl \in JwtPayloads, sg \in {BadSign}}
      \cup {h \o Dot \o pl \o Dot \o Sign(h, pl) :
               h \in JwtHeaders, pl \in JwtPayloads}
      \cup { <<>>,
             EncodeToString(HeaderJSON) \o Dot \o BadSign,
             makeJWT(<<"p">>).token \o Dot \o BadSign }

\* A call makeJWT(p): out is the token, ok is err == nil.
MakeJWTCall ==
    \E p \in Passwords :
        /\ calls' = JwtCall("makeJWT", <<>>, p, ~makeJWT(p).err,
                            makeJWT(p).token)
        /\ last' = NoAnswer
        /\ UNCHANGED <<zone, clock, tasks, nextId, password>>
        /\ UNCHANGED ndvars

\* A call validateJWT(token, q): ok is the result.
ValidateJWTCall ==
    \E t \in Tokens, q \in Passwords :
        /\ calls' = JwtCall("validateJWT", t, q, validateJWT(t, q), <<>>)
        /\ last' = NoAnswer
        /\ UNCHANGED <<zone, clock, tasks, nextId, password>>
        /\ UNCHANGED ndvars

(***************************************************************************)
(* Sign-in and the auth middleware, src/main.go 106-173.                   *)
(***************************************************************************)
\* The body the wrapped handler writes when the middleware invokes it.
OK == <<"O", "K">>

\* auth letting every request with a token cookie through.
authAnyCookie(passEnv, hasCookie, token) ==
    IF passEnv = <<>> THEN [next |-> TRUE, status |-> 200]
    ELSE IF ~hasCookie THEN [next |-> FALSE, status |-> 401]
    ELSE [next |-> TRUE, status |-> 200]

\* auth, lines 146-173: whether next is invoked, and the status.
auth(passEnv, hasCookie, token) ==
    IF passEnv = <<>> THEN [next |-> TRUE, status |-> 200]
    ELSE IF ~hasCookie THEN [next |-> FALSE, status |-> 401]
    ELSE IF ~validateJWT(token, passEnv) THEN [next |-> FALSE, status |-> 401]
    ELSE [next |-> TRUE, status |-> 200]

\* A request through auth(next), with or without a token cookie.
AuthRequest ==
    \E has \in BOOLEAN, t \in Tokens :
        /\ has \/ t = <<>>
        /\ last' = Answer("auth",
                          [Query(<<>>, <<>>, <<>>) EXCEPT !.hasCookie = has,
                                                         !.cookie = t],
                          auth(password, has, t).status, 0,
                          IF auth(password, has, t).next THEN OK ELSE <<>>)
        /\ calls' = NoJwtCall
        /\ UNCHANGED <<zone, clock, tasks, nextId, password>>
        /\ UNCHANGED ndvars

\* handleSignin issuing a token without comparing the password.
handleSigninAnyPassword(passEnv, json, pw) ==
    IF passEnv = <<>>
    THEN [status |-> 200, token |-> <<>>, error |-> TRUE]
    ELSE IF ~json THEN [status |-> 400, token |-> <<>>, error |-> TRUE]
    ELSE IF makeJWT(passEnv).err
    THEN [status |-> 500, token |-> <<>>, error |-> TRUE]
    ELSE [status |-> 200, token |-> makeJWT(passEnv).token, error |-> FALSE]

\* handleSignin, lines 106-144: the status, the token and whether the
\* answer carries an error message.
handleSignin(passEnv, json, pw) ==
    IF passEnv = <<>>
    THEN [status |-> 200, token |-> <<>>, error |-> TRUE]
    ELSE IF ~json THEN [status |-> 400, token |-> <<>>, error |-> TRUE]
    ELSE IF pw # passEnv
    THEN [status |-> 401, token |-> <<>>, error |-> TRUE]
    ELSE IF makeJWT(passEnv).err
    THEN [status |-> 500, token |-> <<>>, error |-> TRUE]
    ELSE [status |-> 200, token |-> makeJWT(passEnv).token, error |-> FALSE]

\* POST /api/signin with a body that is not JSON, or with a password.
Signin ==
    \E json \in BOOLEAN, pw \in Passwords :
        /\ json \/ pw = <<>>
        /\ last' = [Answer("signin",
                           [Request(json, <<>>, <<>>, <<>>, <<>>, <<>>)
                               EXCEPT !.password = pw],
                           handleSignin(password, json, pw).status, 0,
                           handleSignin(password, json, pw).token)
                       EXCEPT !.error = handleSignin(password, json, pw).error]
        /\ calls' = NoJwtCall
        /\ UNCHANGED <<zone, clock, tasks, nextId, password>>
        /\ UNCHANGED ndvars

ApiInit ==
    /\ password \in Passwords
    /\ last = NoAnswer
    /\ zone = 0
    /\ clock = ClockMin
    /\ tasks = <<>>
    /\ nextId = 1
    /\ calls = NoJwtCall
    /\ now = 0
    /\ date = <<>>
    /\ repeat = <<>>
    /\ pc = "idle"
    /\ parsedDate = 0
    /\ nextDate = 0
    /\ days = 0
    /\ result = <<>>
    /\ err = ""
    /\ iter = 0
    /\ advanced = 0
    /\ snapped = FALSE

ApiNext ==
    \/ NextDateRequest
    \/ MakeJWTCall
    \/ ValidateJWTCall
    \/ AuthRequest
    \/ Signin

ApiSpec == ApiInit /\ [][ApiNext]_vars

(***************************************************************************)
(* Claims on tokens.                                                       *)
(***************************************************************************)
\* C17 (as amended): the token makeJWT makes for a non-empty password p is
\* accepted with password q exactly when q = p; and a token is accepted
\* with q exactly when it has three parts, the third is the signature of
\* the first two, and the second is the encoded payload carrying the hash
\* of q, whatever the first part is.
C17_ValidateAccepts ==
    calls.fn = "validateJWT" =>
        /\ \A p \in Passwords \ {<<>>} :
              calls.token = makeJWT(p).token
                  => (calls.ok <=> calls.password = p)
        /\ calls.ok <=>
              \E h \in JwtHeaders :
                  LET pl == EncodeToString(
                                PayloadJSON(makePasswordHash(calls.password)))
                  IN  calls.token = h \o Dot \o pl \o Dot \o Sign(h, pl)

\* C17 as first stated: the round trip, and every token that makeJWT did
\* not make for q is rejected.
C17_ValidateOnlyMakeJWT ==
    calls.fn = "validateJWT" =>
        /\ \A p \in Passwords \ {<<>>} :
              calls.token = makeJWT(p).token
                  => (calls.ok <=> calls.password = p)
        /\ calls.ok =>
              /\ calls.password # <<>>
              /\ calls.token = makeJWT(calls.password).token

\* validateJWT has accepted the token makeJWT makes for the same password.
C17_Witness ==
    /\ calls.fn = "validateJWT"
    /\ calls.ok
    /\ calls.password # <<>>
    /\ calls.token = makeJWT(calls.password).token

\* C18: makeJWT of the empty password returns an error and the empty
\* token; of a non-empty password it returns no error and a non-empty
\* token.
C18_MakeJWTEmptyPassword ==
    calls.fn = "makeJWT" =>
        IF calls.password = <<>>
        THEN ~calls.ok /\ calls.out = <<>>
        ELSE calls.ok /\ calls.out # <<>>

\* makeJWT has been called with the empty password and has returned an
\* error and no token.
C18_Witness ==
    /\ calls.fn = "makeJWT"
    /\ calls.password = <<>>
    /\ ~calls.ok
    /\ calls.out = <<>>

(***************************************************************************)
(* Claims on sign-in and the middleware.                                   *)
(***************************************************************************)
\* C19: with TODO_PASSWORD empty the middleware invokes the wrapped handler
\* for every request; with TODO_PASSWORD set it invokes the wrapped handler
\* exactly when the request has a token cookie that validateJWT accepts
\* with TODO_PASSWORD, and otherwise answers 401 without invoking it.
C19_AuthGate ==
    last.op = "auth" =>
        IF password = <<>>
        THEN last.body = OK
        ELSE IF last.req.hasCookie /\ validateJWT(last.req.cookie, password)
        THEN last.body = OK /\ last.status = 200
        ELSE last.body = <<>> /\ last.status = 401

\* With TODO_PASSWORD set, a request carrying the token of another
\* password has been answered 401.
C19_Witness ==
    /\ last.op = "auth"
    /\ password # <<>>
    /\ last.req.hasCookie
    /\ \E p \in Passwords \ {<<>>, password} :
          last.req.cookie = makeJWT(p).token
    /\ last.status = 401
    /\ last.body = <<>>

\* C20: handleSignin returns a token exactly when TODO_PASSWORD is not
\* empty and the submitted password equals it, and validateJWT accepts
\* that token with TODO_PASSWORD; otherwise it returns no token: status
\* 200 with an error message when TODO_PASSWORD is empty, 400 when the
\* body is not JSON, 401 when the password differs.
C20_SigninIssuesToken ==
    last.op = "signin" =>
        IF password # <<>> /\ last.req.json /\ last.req.password = password
        THEN /\ last.body # <<>>
             /\ validateJWT(last.body, password)
             /\ last.status = 200
             /\ ~last.error
        ELSE /\ last.body = <<>>
             /\ last.error
             /\ last.status = IF password = <<>> THEN 200
                              ELSE IF ~last.req.json THEN 400
                              ELSE 401

\* handleSignin has issued a token.
C20_Witness ==
    /\ last.op = "signin"
    /\ password # <<>>
    /\ last.req.password = password
    /\ last.status = 200
    /\ last.body = makeJWT(password).token

(***************************************************************************)
(* The annual rule: leap days and month ends.                              *)
(***************************************************************************)
\* C29: with rule "y" and an anchor of February 29, every returned date is
\* a March 1, and no iteration of the catch-up loop starts from a
\* February 29.
C29_LeapDayAnchorNeverLeapDayAgain ==
    /\ []((Succeeded /\ IsAnnualRule(repeat)
              /\ MonthDayText(date) = LeapDayText)
            => MonthDayText(result) = MarchFirstText)
    /\ [][(pc = "annual_loop" /\ iter' # iter
              /\ MonthDayText(date) = LeapDayText)
            => ~IsLeapDay(nextDate)]_vars

\* A call with rule "y" and a leap-day anchor has gone through the catch-up
\* loop into a leap year and returned March 1.
C29_Witness ==
    /\ Succeeded
    /\ IsAnnualRule(repeat)
    /\ MonthDayText(date) = LeapDayText
    /\ iter >= 2
    /\ isLeapYear(Year(nextDate))
    /\ MonthDayText(result) = MarchFirstText

\* The annual computation of lines 794-838 with the two snaps of lines
\* 808-815 and 831-836 taken out.
RECURSIVE AnnualLoopNoSnap(_, _)
AnnualLoopNoSnap(t, ref) ==
    IF ~LoopCond(t, ref) THEN t
    ELSE AnnualLoopNoSnap(IF IsLeapDay(t) THEN LeapDayStep(t)
                          ELSE AddYear(t), ref)

\* C30: for every reference and valid anchor, NextDate with rule "y"
\* returns the date the computation without the snaps returns, and a step
\* that snaps lands where the plain year step lands.
C30_SnapChangesNothing ==
    /\ [](Succeeded /\ IsAnnualRule(repeat)
            => result = Format(AnnualLoopNoSnap(
                                   IF IsLeapDay(parsedDate)
                                   THEN LeapDayStep(parsedDate)
                                   ELSE AddYear(parsedDate), now)))
    /\ [][(IsAnnualRule(repeat) /\ iter' # iter /\ snapped')
            => nextDate' = AddYear(nextDate)]_vars

\* A call with rule "y" and an anchor on a 31st has snapped in the loop and
\* returned.
C30_Witness ==
    /\ Succeeded
    /\ IsAnnualRule(repeat)
    /\ DomOfText(date) = 31
    /\ iter >= 2
    /\ snapped

\* C22: handleUpdateTask passes a non-empty rule exactly when NextDate, on
\* a valid anchor, accepts it.
C22_UpdateAcceptsWhatNextDateAccepts ==
    (pc = "done" /\ ValidAnchor /\ repeat # <<>>)
        => (UpdateRuleOK(repeat) <=> err = "")

(***************************************************************************)
(* The four handlers that write the table, src/main.go 231-273.             *)
(***************************************************************************)
\* handleDoneTask, lines 589-662: the status, the id and the table after.
DoneResult(s, t, store) ==
    IF IdBad(s) THEN [status |-> 400, id |-> 0, store |-> store]
    ELSE IF Atoi(s) \notin DOMAIN store
    THEN [status |-> 404, id |-> Atoi(s), store |-> store]
    ELSE IF store[Atoi(s)].repeat = <<>>
    THEN [status |-> 200, id |-> Atoi(s), store |-> Delete(store, Atoi(s))]
    ELSE LET n == NextDate(t, store[Atoi(s)].date, store[Atoi(s)].repeat)
         IN  IF n.err # ""
             THEN [status |-> 400, id |-> Atoi(s), store |-> store]
             ELSE [status |-> 200, id |-> Atoi(s),
                   store |-> UpdateDate(store, Atoi(s), n.result)]

\* The server runs with TODO_PASSWORD set; no handler of the table reads
\* it.
CrudInit ==
    /\ zone \in Zones
    /\ password = <<"p">>
    /\ clock = ClockMin
    /\ tasks = <<>>
    /\ nextId = 1
    /\ last = NoAnswer
    /\ calls = <<>>
    /\ now = 0
    /\ date = <<>>
    /\ repeat = <<>>
    /\ pc = "idle"
    /\ parsedDate = 0
    /\ nextDate = 0
    /\ days = 0
    /\ result = <<>>
    /\ err = ""
    /\ iter = 0
    /\ advanced = 0
    /\ snapped = FALSE

\* POST /api/task with a body that is not JSON, a task without a title, a
\* task with an unparsable date, tasks without a rule or with a daily
\* rule, or a task with an unsupported rule.  The answers are kept without
\* their requests.
PostTask ==
    \E b \in {BadJSON}
              \cup {Request(TRUE, <<>>, D20240126, <<>>, <<>>, <<>>)}
              \cup {Request(TRUE, TitleA,
                            <<"2", "0", "2", "4", "0", "1", "3">>,
                            <<>>, <<>>, <<>>)}
              \cup {Request(TRUE, TitleA, d, <<>>, r, <<>>) :
                       d \in { <<>>, D20240125, D20240126 },
                       r \in { <<>>, <<"d", " ", "1">> }}
              \cup {Request(TRUE, TitleA, D20240126, <<>>,
                            <<"w", "e", "e", "k", "l", "y">>, <<>>)} :
        LET a == AddTaskDate(b, clock, zone)
        IN  /\ IF a.status = 200
               THEN /\ nextId <= MaxTasks
                    /\ tasks' = Insert(tasks, nextId,
                                       [date |-> a.date, title |-> b.title,
                                        comment |-> b.comment,
                                        repeat |-> b.repeat])
                    /\ nextId' = nextId + 1
                    /\ last' = Answer("add", BadJSON, 200, nextId, <<>>)
               ELSE /\ last' = Answer("add", BadJSON, a.status, 0, <<>>)
                    /\ UNCHANGED <<tasks, nextId>>
            /\ UNCHANGED <<zone, clock, calls, password>>
            /\ UNCHANGED ndvars

\* PUT /api/task with a body that is not JSON, bodies with a bad id,
\* without a title, with an unparsable date or with an unsupported rule,
\* tasks for the ids 1 and 2, or a task with the rule "d 405".
PutTask ==
    \E b \in {BadJSON}
              \cup {Request(TRUE, TitleA, D20240126, <<>>, <<>>, s) :
                       s \in { <<>>, <<"0">>, <<"x">> }}
              \cup {Request(TRUE, <<>>, D20240126, <<>>, <<>>, <<"1">>)}
              \cup {Request(TRUE, TitleA, <<"2", "0", "2", "4", "0", "1", "3">>,
                            <<>>, <<>>, <<"1">>)}
              \cup {Request(TRUE, TitleA, D20240126, <<>>,
                            <<"w", "e", "e", "k", "l", "y">>, <<"1">>)}
              \cup {Request(TRUE, TitleA, d, <<>>, <<>>, s) :
                       d \in { <<>>, D20240125, D20240126 },
                       s \in { <<"1">>, <<"2">> }}
              \cup {Request(TRUE, TitleA, D20240126, <<>>,
                            <<"d", " ", "4", "0", "5">>, <<"1">>)} :
        /\ tasks' = UpdateResult(b, clock, zone, tasks)
        /\ last' = Answer("update", BadJSON,
                          UpdateStatus(b, clock, zone, tasks).status,
                          IF UpdateStatus(b, clock, zone, tasks).write
                          THEN Atoi(b.arg) ELSE 0, <<>>)
        /\ UNCHANGED <<zone, clock, nextId, calls, password>>
        /\ UNCHANGED ndvars

\* DELETE /api/task?id=s
DeleteTask ==
    \E s \in IdStrings :
        /\ tasks' = IF DeleteStatus(s, tasks) = 200
                    THEN Delete(tasks, Atoi(s)) ELSE tasks
        /\ last' = Answer("delete", BadJSON, DeleteStatus(s, tasks),
                          IF DeleteStatus(s, tasks) = 200 THEN Atoi(s) ELSE 0,
                          <<>>)
        /\ UNCHANGED <<zone, clock, nextId, calls, password>>
        /\ UNCHANGED ndvars

\* POST /api/task/done?id=s, on a task that is not dated beyond the days
\* the model follows.
PostDone ==
    \E s \in IdStrings :
        /\ IF IdBad(s) THEN TRUE
           ELSE IF Atoi(s) \notin DOMAIN tasks THEN TRUE
           ELSE DayNumber(Parse(tasks[Atoi(s)].date))
                    <= DayNumber(ClockMin) + MaxAheadDays
        /\ tasks' = DoneResult(s, clock, tasks).store
        /\ last' = Answer("done", BadJSON, DoneResult(s, clock, tasks).status,
                          DoneResult(s, clock, tasks).id, <<>>)
        /\ UNCHANGED <<zone, clock, nextId, calls, password>>
        /\ UNCHANGED ndvars

CrudNext ==
    \/ Tick
    \/ PostTask
    \/ PutTask
    \/ DeleteTask
    \/ PostDone

CrudSpec == CrudInit /\ [][CrudNext]_vars

(***************************************************************************)
(* Claims on the four handlers that write the table.                       *)
(***************************************************************************)
\* C21: every stored task has an empty rule or a rule NextDate accepts for
\* its date, so a done request on it cannot be answered 400.
C21_StoredRulesAccepted ==
    \A i \in DOMAIN tasks :
        \/ tasks[i].repeat = <<>>
        \/ NextDate(clock, tasks[i].date, tasks[i].repeat).err = ""

\* C23: with TODO_PASSWORD set, a request to the task endpoints without a
\* token cookie is answered 401.
C23_TaskEndpointsNeedToken ==
    (password # <<>> /\ last.op \in {"add", "update", "delete", "done"})
        => last.status = 401

\* C25: a successful done request on a task with a rule keeps the task,
\* moves its date strictly forward and leaves it strictly after the current
\* day.
C25_DoneLeavesDateAfterToday ==
    [][(/\ clock' = clock
        /\ last'.op = "done"
        /\ last'.status = 200
        /\ last'.id \in DOMAIN tasks)
         => (tasks[last'.id].repeat # <<>>
               => /\ last'.id \in DOMAIN tasks'
                  /\ Parse(tasks'[last'.id].date)
                        > Parse(tasks[last'.id].date)
                  /\ DayNumber(Parse(tasks'[last'.id].date))
                        > LocalDay(clock, zone))]_vars

\* C26: a successful add, update or done request that leaves its task in
\* the table leaves it with a date that parses and is not earlier than
\* the current day.
C26_WrittenDateNotBeforeToday ==
    [][(/\ clock' = clock
        /\ last'.op \in {"add", "update", "done"}
        /\ last'.status = 200
        /\ last'.id \in DOMAIN tasks')
         => /\ ParseOK(tasks'[last'.id].date)
            /\ DayNumber(Parse(tasks'[last'.id].date))
                  >= LocalDay(clock, zone)]_vars

\* A done request has stored the current day itself.
C26_Witness ==
    /\ last.op = "done"
    /\ last.status = 200
    /\ last.id \in DOMAIN tasks
    /\ DayNumber(Parse(tasks[last.id].date)) = LocalDay(clock, zone)

\* C27: a request answered with an error status leaves the table as it
\* was.
C27_ErrorsChangeNothing ==
    [][(clock' = clock /\ last'.status >= 400)
         => (tasks' = tasks /\ nextId' = nextId)]_vars

\* A done request on a stored task was answered 400 because NextDate
\* failed.
C27_Witness ==
    /\ last.op = "done"
    /\ last.status = 400
    /\ last.id \in DOMAIN tasks

(***************************************************************************)
(* Concurrent requests on one stored task.  net/http serves every request  *)
(* in its own goroutine; handleDoneTask reads the row with one statement   *)
(* (lines 607-611) and writes it with another (line 626 or 649-653),       *)
(* outside any transaction, while handleUpdateTask and handleDeleteTask    *)
(* touch the table with one statement each.                                *)
(***************************************************************************)
\* A request in flight: the handler it runs, where it stands, its status
\* and, for a done request, the row its SELECT returned.
RequestCall(op, at, status) ==
    [op |-> op, pc |-> at, status |-> status,
     row |-> [date |-> <<>>, title |-> <<>>, comment |-> <<>>,
              repeat |-> <<>>]]

\* The body of the concurrent PUT /api/task; every request of the race
\* names its id.
RaceUpdate ==
    Request(TRUE, <<"b">>, <<"2", "0", "2", "4", "0", "1", "2", "8">>, <<>>,
            <<"y">>, <<"1">>)

RaceInit ==
    /\ zone \in Zones
    /\ clock \in Clocks
    /\ calls = [c \in CallIds |-> RequestCall("none", "idle", 0)]
    /\ tasks = <<StoredRow>>
    /\ nextId = 2
    /\ last = NoAnswer
    /\ password = <<>>
    /\ now = 0
    /\ date = <<>>
    /\ repeat = <<>>
    /\ pc = "idle"
    /\ parsedDate = 0
    /\ nextDate = 0
    /\ days = 0
    /\ result = <<>>
    /\ err = ""
    /\ iter = 0
    /\ advanced = 0
    /\ snapped = FALSE

\* handleDoneTask, lines 589-621: the id is read and the row selected.
DoneSelect(c) ==
    /\ calls[c].pc = "idle"
    /\ calls' = Store(calls, c,
                      IF Atoi(RaceUpdate.arg) \in DOMAIN tasks
                      THEN [RequestCall("done", "selected", 0)
                               EXCEPT !.row = tasks[Atoi(RaceUpdate.arg)]]
                      ELSE RequestCall("done", "done", 404))
    /\ UNCHANGED <<zone, clock, tasks, nextId, password, last>>
    /\ UNCHANGED ndvars

\* handleDoneTask, lines 623-662: the row that was selected decides between
\* DELETE and UPDATE, and the statement runs on the table as it is now.
DoneWrite(c) ==
    /\ calls[c].pc = "selected"
    /\ IF calls[c].row.repeat = <<>>
       THEN /\ tasks' = Delete(tasks, Atoi(RaceUpdate.arg))
            /\ calls' = Store(calls, c, [calls[c] EXCEPT !.pc = "done",
                                                         !.status = 200])
       ELSE LET n == NextDate(clock, calls[c].row.date, calls[c].row.repeat)
            IN  IF n.err # ""
                THEN /\ UNCHANGED tasks
                     /\ calls' = Store(calls, c,
                                       [calls[c] EXCEPT !.pc = "done",
                                                        !.status = 400])
                ELSE /\ tasks' = UpdateDate(tasks, Atoi(RaceUpdate.arg),
                                            n.result)
                     /\ calls' = Store(calls, c,
                                       [calls[c] EXCEPT !.pc = "done",
                                                        !.status = 200])
    /\ UNCHANGED <<zone, clock, nextId, password, last>>
    /\ UNCHANGED ndvars

\* handleUpdateTask: its one UPDATE statement, lines 516-520.
UpdateRun(c) ==
    /\ calls[c].pc = "idle"
    /\ tasks' = UpdateResult(RaceUpdate, clock, zone, tasks)
    /\ calls' = Store(calls, c,
                      RequestCall("update", "done",
                                  UpdateStatus(RaceUpdate, clock, zone,
                                               tasks).status))
    /\ UNCHANGED <<zone, clock, nextId, password, last>>
    /\ UNCHANGED ndvars

\* handleDeleteTask: its one DELETE statement, line 565.
DeleteRun(c) ==
    /\ calls[c].pc = "idle"
    /\ tasks' = IF DeleteStatus(RaceUpdate.arg, tasks) = 200
                THEN Delete(tasks, Atoi(RaceUpdate.arg)) ELSE tasks
    /\ calls' = Store(calls, c,
                      RequestCall("delete", "done",
                                  DeleteStatus(RaceUpdate.arg, tasks)))
    /\ UNCHANGED <<zone, clock, nextId, password, last>>
    /\ UNCHANGED ndvars

RaceNext ==
    \E c \in CallIds :
        \/ DoneSelect(c)
        \/ DoneWrite(c)
        \/ UpdateRun(c)
        \/ DeleteRun(c)

RaceSpec == RaceInit /\ [][RaceNext]_vars

\* C24: when two concurrent requests on one recurring task, a done request
\* among them, have both been answered, the table is what serving them one
\* after the other, in one of the two orders, leaves.
C24_DoneSerializable ==
    LET Serial(op, store) ==
            IF op = "done"
            THEN DoneResult(RaceUpdate.arg, clock, store).store
            ELSE IF op = "update"
            THEN UpdateResult(RaceUpdate, clock, zone, store)
            ELSE IF DeleteStatus(RaceUpdate.arg, store) = 200
            THEN Delete(store, Atoi(RaceUpdate.arg))
            ELSE store
    IN  (/\ calls["a"].pc = "done"
         /\ calls["b"].pc = "done"
         /\ "done" \in {calls["a"].op, calls["b"].op})
        => \/ tasks = Serial(calls["b"].op,
                             Serial(calls["a"].op, <<StoredRow>>))
           \/ tasks = Serial(calls["a"].op,
                             Serial(calls["b"].op, <<StoredRow>>))

(***************************************************************************)
(* GET /api/tasks without a search term, src/main.go 664-765.              *)
(***************************************************************************)
\* const limitDefault = 50, line 668.
limitDefault == 50

\* The most rows the table holds when it is listed.
MaxRows == 52

\* SQLite compares the text of two date columns byte by byte; a text that
\* is a prefix of another comes first.
RECURSIVE TextLess(_, _)
TextLess(a, b) ==
    IF a = <<>> THEN b # <<>>
    ELSE IF b = <<>> THEN FALSE
    ELSE IF Head(a) = Head(b) THEN TextLess(Tail(a), Tail(b))
    ELSE DigitVal(Head(a)) < DigitVal(Head(b))

\* Row j after row i under ORDER BY date DESC.  Rows of equal date come
\* in the order tie, ascending or descending rowid: ORDER BY names the date
\* only.
RowBeforeDesc(store, i, j, tie) ==
    IF store[i].date = store[j].date
    THEN IF tie = "asc" THEN i < j ELSE j < i
    ELSE TextLess(store[j].date, store[i].date)

\* Row i comes before row j under ORDER BY date ASC, line 683.
RowBefore(store, i, j, tie) ==
    IF store[i].date = store[j].date
    THEN IF tie = "asc" THEN i < j ELSE j < i
    ELSE TextLess(store[i].date, store[j].date)

\* The ordered ids with id x put at its place.
RECURSIVE InsertId(_, _, _, _)
InsertId(ids, x, store, tie) ==
    IF ids = <<>> THEN <<x>>
    ELSE IF RowBefore(store, x, Head(ids), tie) THEN <<x>> \o ids
    ELSE <<Head(ids)>> \o InsertId(Tail(ids), x, store, tie)

\* The ids of the rows 1..n in the order of the query.
RECURSIVE OrderByDate(_, _, _)
OrderByDate(n, store, tie) ==
    IF n = 0 THEN <<>>
    ELSE InsertId(OrderByDate(n - 1, store, tie), n, store, tie)

\* Task, as rows.Scan fills it, lines 727-747.
Task(store, i) ==
    [id |-> i, date |-> store[i].date, title |-> store[i].title,
     comment |-> store[i].comment, repeat |-> store[i].repeat]

\* A table of n rows whose dates run through three days with stride k.
ListStore(n, k) ==
    [i \in 1..n |->
        [date |-> <<D20240131, D20240126, D20240201>>[((i * k) % 3) + 1],
         title |-> TitleA, comment |-> <<>>, repeat |-> <<>>]]

ListInit ==
    /\ \E n \in 0..MaxRows, k \in 0..2 : tasks = ListStore(n, k)
    /\ nextId = Len(tasks) + 1
    /\ last = Answer("none", BadJSON, 0, 0, [null |-> TRUE, items |-> <<>>])
    /\ zone = 0
    /\ clock = ClockMin
    /\ calls = <<>>
    /\ password = <<>>
    /\ now = 0
    /\ date = <<>>
    /\ repeat = <<>>
    /\ pc = "idle"
    /\ parsedDate = 0
    /\ nextDate = 0
    /\ days = 0
    /\ result = <<>>
    /\ err = ""
    /\ iter = 0
    /\ advanced = 0
    /\ snapped = FALSE

\* handleGetTasks, lines 684-686 and 725-759, on the ids in the order of
\* the query: LIMIT ? keeps the first limitDefault of them; var tasks
\* []Task is nil and is appended to once for every row; a nil slice is
\* replaced by an empty one.
GetTasksBody(store, ordered) ==
    LET n == IF Len(ordered) <= limitDefault THEN Len(ordered)
             ELSE limitDefault
        scanned == IF n = 0 THEN [null |-> TRUE, items |-> <<>>]
                   ELSE [null |-> FALSE,
                         items |-> [k \in 1..n |-> Task(store, ordered[k])]]
    IN  IF scanned.null THEN [null |-> FALSE, items |-> <<>>] ELSE scanned

\* GET /api/tasks with search = "", lines 665-765; rows of equal date come
\* in ascending or in descending rowid.
GetTasks ==
    /\ \E tie \in {"asc", "desc"} :
           last' = Answer("tasks", BadJSON, 200, 0,
                          GetTasksBody(tasks,
                                       OrderByDate(Len(tasks), tasks, tie)))
    /\ UNCHANGED <<zone, clock, tasks, nextId, calls, password>>
    /\ UNCHANGED ndvars

ListSpec == ListInit /\ [][GetTasks]_vars

\* C28: the answer of GET /api/tasks without a search term is a list, not
\* null; it holds at most 50 tasks, each a stored row and none twice, in
\* non-decreasing order of date; and a stored task that is left out means
\* the list is full and holds no task dated after the one left out.
C28_ListIsEarliestFifty ==
    LET ListedIds == {last.body.items[k].id : k \in DOMAIN last.body.items}
    IN  last.op = "tasks" =>
            /\ ~last.body.null
            /\ Len(last.body.items) <= limitDefault
            /\ Cardinality(ListedIds) = Len(last.body.items)
            /\ \A k \in DOMAIN last.body.items :
                  /\ last.body.items[k].id \in DOMAIN tasks
                  /\ last.body.items[k]
                        = Task(tasks, last.body.items[k].id)
            /\ \A k \in 1..(Len(last.body.items) - 1) :
                  Parse(last.body.items[k].date)
                      <= Parse(last.body.items[k + 1].date)
            /\ \A i \in (DOMAIN tasks) \ ListedIds :
                  /\ Len(last.body.items) = limitDefault
                  /\ \A k \in DOMAIN last.body.items :
                        Parse(last.body.items[k].date)
                            <= Parse(tasks[i].date)

\* A table of more than 50 rows with several dates was listed, and the
\* list is full.
C28_Witness ==
    /\ last.op = "tasks"
    /\ Len(tasks) > limitDefault
    /\ Len(last.body.items) = limitDefault
    /\ last.body.items[1].date # last.body.items[limitDefault].date

====
